---- MODULE Spec2Model ----
(***************************************************************************)
(* StructuralAlignmentManager: pending-work resolution, pair enumeration,  *)
(* multi-algorithm dispatch, result merging and idempotent persistence.    *)
(*                                                                         *)
(* Python dicts are functions with a domain of string keys; lists are      *)
(* sequences; None (and SQL NULL) is Null.  Query rows are taken in        *)
(* primary-key order.  The session autoflushes before every query, so a    *)
(* transaction sees its own pending rows.                                  *)
(***************************************************************************)
EXTENDS Integers, Sequences, FiniteSets, TLC

VARIABLES
    SubclusterEntry,      \* id -> [subcluster_id, cluster_id, is_representative, file_path]
    conf_types,           \* conf['structural_alignment']['types']
    types,                \* self.types: ids of the loaded alignment modules
    AlignmentGroup,       \* committed AlignmentGroup ids
    AlignmentGroupEntry,  \* committed rows [alignment_group_id, subcluster_entry_id, copy]
    AlignmentResult,      \* committed rows [id, alignment_group_id, <metric columns>]
    queue,                \* published, not yet consumed task descriptors
    last,                 \* the handler call that has just returned (NoCall when idle)
    txs                   \* worker -> its store_entry transaction in flight

vars == <<SubclusterEntry, conf_types, types, AlignmentGroup, AlignmentGroupEntry,
          AlignmentResult, queue, last, txs>>

----------------------------------------------------------------------------
(* Bounds of the exploration *)

MaxBatch == 2     \* records in a directly stored batch
MaxQueue == 2     \* published tasks waiting
MaxSeedGroups == 2 \* groups of a persisted state written by others
MaxResults == 2    \* stored results up to which process is called directly

----------------------------------------------------------------------------
(* Values *)

Null == 0

NoResult == [no_result |-> TRUE]

NoCall == [op |-> "idle"]

Workers == {1, 2}

NoRows == [AlignmentGroup |-> {}, AlignmentGroupEntry |-> {}, AlignmentResult |-> {}]

(* A worker that is not inside store_entry. *)
NoTx == [status |-> "idle", cluster_id |-> Null, batch |-> <<>>, i |-> 1, phase |-> "group",
         group |-> Null, writes |-> NoRows, touched |-> {}, result_ids |-> {}]

Get(d, k) == IF k \in DOMAIN d THEN d[k] ELSE Null

Update(d, new) == new @@ d

Max(S) == CHOOSE x \in S : \A y \in S : y <= x

NewId(ids) == IF ids = {} THEN 1 ELSE Max(ids) + 1

SortedSeq(S) ==
    [k \in 1..Cardinality(S) |-> CHOOSE x \in S : Cardinality({y \in S : y < x}) = k - 1]

Range(s) == {s[i] : i \in DOMAIN s}

StructuralAlignmentTypeIds == {1, 2, 3}

CeFields == <<"ce_rms">>
TmFields == <<"tm_rms", "tm_seq_id", "tm_score_chain_1", "tm_score_chain_2">>
FcFields == <<"fc_rms", "fc_identity", "fc_similarity", "fc_score", "fc_align_len">>

MetricFields == CeFields \o TmFields \o FcFields

FieldsOfType(t) ==
    IF t = 1 THEN Range(CeFields)
    ELSE IF t = 2 THEN Range(TmFields)
    ELSE IF t = 3 THEN Range(FcFields)
    ELSE {}

FieldIndex(f) == CHOOSE j \in 1..Len(MetricFields) : MetricFields[j] = f

Readings == {1, 2}

(* The number an algorithm run with reading v reports in metric field f for
   the two inputs x and y. *)
MetricValue(v, x, y, f) == ((v * 10 + x) * 10 + y) * 100 + FieldIndex(f)

----------------------------------------------------------------------------
(* The persistent store as one transaction sees it *)

DB == [AlignmentGroup      |-> AlignmentGroup,
       AlignmentGroupEntry |-> AlignmentGroupEntry,
       AlignmentResult     |-> AlignmentResult]

Ids(rows) == {row.id : row \in rows}

(* The group query without its filter on the two ids. *)
FindGroups_AnyTwoRows(tx, id1, id2) ==
    {g \in tx.AlignmentGroup :
        Cardinality({row \in tx.AlignmentGroupEntry : row.alignment_group_id = g}) = 2}

(* The group query with only the first id in its IN list. *)
FindGroups_FirstIdOnly(tx, id1, id2) ==
    {g \in tx.AlignmentGroup :
        Cardinality({row \in tx.AlignmentGroupEntry :
                        /\ row.alignment_group_id = g
                        /\ row.subcluster_entry_id \in {id1}}) = 2}

(* store_entry's group query: the groups with exactly two entry rows whose
   subcluster_entry_id is one of the two ids. *)
FindGroups(tx, id1, id2) ==
    {g \in tx.AlignmentGroup :
        Cardinality({row \in tx.AlignmentGroupEntry :
                        /\ row.alignment_group_id = g
                        /\ row.subcluster_entry_id \in {id1, id2}}) = 2}

ResultsOfGroup(tx, g) == {row \in tx.AlignmentResult : row.alignment_group_id = g}

(* An AlignmentGroupEntry row's own id is never read, only counted: a row is
   told from another row of the same group and entry by its copy number. *)
NewGroupWithEntries(tx, id1, id2) ==
    LET g == NewId(tx.AlignmentGroup)
    IN  [tx EXCEPT
            !.AlignmentGroup = @ \cup {g},
            !.AlignmentGroupEntry = @ \cup
                {[alignment_group_id |-> g, subcluster_entry_id |-> id1, copy |-> 1],
                 [alignment_group_id |-> g, subcluster_entry_id |-> id2,
                  copy |-> IF id1 = id2 THEN 2 ELSE 1]}]

(* tx with a new group of id g and its two entry rows. *)
NewGroupWithEntriesAs(tx, g, id1, id2) ==
    [tx EXCEPT
        !.AlignmentGroup = @ \cup {g},
        !.AlignmentGroupEntry = @ \cup
            {[alignment_group_id |-> g, subcluster_entry_id |-> id1, copy |-> 1],
             [alignment_group_id |-> g, subcluster_entry_id |-> id2,
              copy |-> IF id1 = id2 THEN 2 ELSE 1]}]

NewResultRowAs(id, g, r) ==
    [f \in Range(MetricFields) |-> Get(r, f)] @@ [id |-> id, alignment_group_id |-> g]

NewResultRow(tx, g, r) ==
    [f \in Range(MetricFields) |-> Get(r, f)]
        @@ [id |-> NewId(Ids(tx.AlignmentResult)), alignment_group_id |-> g]

InsertResult(tx, g, r) ==
    [tx EXCEPT !.AlignmentResult = @ \cup {NewResultRow(tx, g, r)}]

RequiredKeys == {"subcluster_entry_1_id", "subcluster_entry_2_id", "cluster_id"}

(* The loop body without the existing-result check. *)
StoreRecord_NoResultCheck(st, r) ==
    LET id1 == r["subcluster_entry_1_id"]
        id2 == r["subcluster_entry_2_id"]
        found == FindGroups(st.tx, id1, id2)
        WithGroup(tx, g) == [st EXCEPT !.tx = InsertResult(tx, g, r), !.inserted = @ + 1]
    IN  IF id1 \notin DOMAIN SubclusterEntry \/ id2 \notin DOMAIN SubclusterEntry
        THEN {st}
        ELSE IF found = {}
        THEN {WithGroup(NewGroupWithEntries(st.tx, id1, id2), NewId(st.tx.AlignmentGroup))}
        ELSE {WithGroup(st.tx, g) : g \in found}

(* The loop body writing the record's fields over an existing result. *)
StoreRecord_Overwrite(st, r) ==
    LET id1 == r["subcluster_entry_1_id"]
        id2 == r["subcluster_entry_2_id"]
        found == FindGroups(st.tx, id1, id2)
        Overwritten(tx, g) ==
            [tx EXCEPT !.AlignmentResult =
                {IF row.alignment_group_id = g
                 THEN [f \in Range(MetricFields) |-> Get(r, f)]
                          @@ [id |-> row.id, alignment_group_id |-> g]
                 ELSE row : row \in @}]
        WithGroup(tx, g) ==
            IF ResultsOfGroup(tx, g) # {}
            THEN [st EXCEPT !.tx = Overwritten(tx, g)]
            ELSE [st EXCEPT !.tx = InsertResult(tx, g, r), !.inserted = @ + 1]
    IN  IF id1 \notin DOMAIN SubclusterEntry \/ id2 \notin DOMAIN SubclusterEntry
        THEN {st}
        ELSE IF found = {}
        THEN {WithGroup(NewGroupWithEntries(st.tx, id1, id2), NewId(st.tx.AlignmentGroup))}
        ELSE {WithGroup(st.tx, g) : g \in found}

(* The loop body without the look-up of the two entries. *)
StoreRecord_UnresolvedStored(st, r) ==
    LET id1 == r["subcluster_entry_1_id"]
        id2 == r["subcluster_entry_2_id"]
        found == FindGroups(st.tx, id1, id2)
        WithGroup(tx, g) ==
            IF ResultsOfGroup(tx, g) # {}
            THEN [st EXCEPT !.tx = tx]
            ELSE [st EXCEPT !.tx = InsertResult(tx, g, r), !.inserted = @ + 1]
    IN  IF found = {}
        THEN {WithGroup(NewGroupWithEntries(st.tx, id1, id2), NewId(st.tx.AlignmentGroup))}
        ELSE {WithGroup(st.tx, g) : g \in found}

(* One iteration of store_entry's loop on record r, when nothing raises: the
   states the transaction can be left in (the group query's first() may
   return any matching group). *)
StoreRecord(st, r) ==
    LET id1 == r["subcluster_entry_1_id"]
        id2 == r["subcluster_entry_2_id"]
        found == FindGroups(st.tx, id1, id2)
        WithGroup(tx, g) ==
            IF ResultsOfGroup(tx, g) # {}
            THEN [st EXCEPT !.tx = tx,
                            !.log = Append(@, <<"info", "result exists", id1, id2>>)]
            ELSE [st EXCEPT !.tx = InsertResult(tx, g, r),
                            !.inserted = @ + 1]
    IN  IF id1 \notin DOMAIN SubclusterEntry \/ id2 \notin DOMAIN SubclusterEntry
        THEN {[st EXCEPT !.log = Append(@, <<"error", "entry not found", id1, id2>>)]}
        ELSE IF found = {}
        THEN LET tx2 == NewGroupWithEntries(st.tx, id1, id2)
             IN  {WithGroup(tx2, NewId(st.tx.AlignmentGroup))}
        ELSE {WithGroup(st.tx, g) : g \in found}

(* The loop body on record r up to the existing-result query: the group is
   looked up and, when none is found, created and flushed with its rows. *)
GroupStep(st, r) ==
    LET id1 == r["subcluster_entry_1_id"]
        id2 == r["subcluster_entry_2_id"]
    IN  IF FindGroups(st.tx, id1, id2) = {}
        THEN [st EXCEPT !.tx = NewGroupWithEntries(st.tx, id1, id2)]
        ELSE st

(* The loop from record i on.  dbFailAt names the record at whose first
   queries the store raises (Len + 1: at commit; 0: never); -i: the store
   raises at the existing-result query of record i, after the group of the
   record was flushed. *)
RECURSIVE RunBatch(_, _, _, _)
RunBatch(st, results, i, dbFailAt) ==
    IF i > Len(results)
    THEN {[st EXCEPT !.raised = (dbFailAt = i)]}
    ELSE IF dbFailAt = i \/ ~(RequiredKeys \subseteq DOMAIN results[i])
    THEN {[st EXCEPT !.raised = TRUE]}
    ELSE IF /\ dbFailAt = 0 - i
            /\ results[i]["subcluster_entry_1_id"] \in DOMAIN SubclusterEntry
            /\ results[i]["subcluster_entry_2_id"] \in DOMAIN SubclusterEntry
    THEN {[GroupStep(st, results[i]) EXCEPT !.raised = TRUE]}
    ELSE UNION {RunBatch(s2, results, i + 1, dbFailAt) : s2 \in StoreRecord(st, results[i])}

Commit(st) == st.tx

(* A rollback that keeps what the transaction had flushed. *)
Rollback_KeepsFlushed(db, st) == st.tx

(* A rollback that undoes the results and keeps the flushed groups. *)
Rollback_KeepsGroups(db, st) ==
    [AlignmentGroup      |-> st.tx.AlignmentGroup,
     AlignmentGroupEntry |-> st.tx.AlignmentGroupEntry,
     AlignmentResult     |-> db.AlignmentResult]

Rollback(db, st) == db

(* store_entry(entry) run on the committed state db: its possible returns. *)
StoreEntryRuns(db, entry, dbFailAt) ==
    LET start == [tx |-> db, inserted |-> 0, raised |-> FALSE, log |-> <<>>]
        ends  == IF "results" \in DOMAIN entry
                 THEN RunBatch(start, entry["results"], 1, dbFailAt)
                 ELSE {[start EXCEPT !.raised = TRUE]}
    IN  {[db       |-> IF st.raised THEN Rollback(db, st) ELSE Commit(st),
          raised   |-> st.raised,
          inserted |-> st.inserted,
          log      |-> IF st.raised
                       THEN Append(st.log, <<"error", "storing failed">>)
                       ELSE Append(st.log, <<"info", "stored", st.inserted>>)]
         : st \in ends}

----------------------------------------------------------------------------
(* Deployments: the catalog written upstream and the configured types *)

Entry(c, rep, id) ==
    [subcluster_id |-> 10 + id, cluster_id |-> c, is_representative |-> rep,
     file_path |-> 4 + id]

(* A: one cluster with three representatives, two of three types configured.
   B: a cluster with two representatives and a non-representative entry, a
      cluster with a single representative, all three types configured.
   C: two clusters with two representatives each, two types configured. *)
Deployments ==
    { [entries |-> (1 :> Entry(1, TRUE, 1) @@ 2 :> Entry(1, TRUE, 2) @@ 3 :> Entry(1, TRUE, 3)),
       conf_types |-> {1, 2}],
      [entries |-> (1 :> Entry(1, TRUE, 1) @@ 2 :> Entry(1, TRUE, 2) @@ 3 :> Entry(1, FALSE, 3)
                    @@ 4 :> Entry(2, TRUE, 4)),
       conf_types |-> {1, 2, 3}],
      [entries |-> (1 :> Entry(1, TRUE, 1) @@ 2 :> Entry(1, TRUE, 2) @@ 3 :> Entry(2, TRUE, 3)
                    @@ 4 :> Entry(2, TRUE, 4)),
       conf_types |-> {1, 2}] }

(* fetch_tasks_info *)
FetchTasksInfo(conf) == {t \in StructuralAlignmentTypeIds : t \in conf}

Init ==
    /\ \E d \in Deployments :
        /\ SubclusterEntry = d.entries
        /\ conf_types = d.conf_types
        /\ types = FetchTasksInfo(d.conf_types)
    /\ AlignmentGroup = {}
    /\ AlignmentGroupEntry = {}
    /\ AlignmentResult = {}
    /\ queue = <<>>
    /\ last = NoCall
    /\ txs = [w \in Workers |-> NoTx]

----------------------------------------------------------------------------
(* Pending-work resolution and enqueueing *)

(* The distinct values of key(s[i]) in order of first appearance: the key
   order of a dict filled row by row. *)
RECURSIVE KeyOrder(_, _)
KeyOrder(keys, acc) ==
    IF keys = <<>> THEN acc
    ELSE IF Head(keys) \in Range(acc) THEN KeyOrder(Tail(keys), acc)
    ELSE KeyOrder(Tail(keys), Append(acc, Head(keys)))

RepresentativeEntries(cat) == SortedSeq({e \in DOMAIN cat : cat[e].is_representative})

ClusterToEntries(cat, c) ==
    LET InC(e) == cat[e].cluster_id = c
    IN  SelectSeq(RepresentativeEntries(cat), InC)

(* Step 2: AlignmentGroupEntry joined with AlignmentResult on the group id,
   grouped by group, kept when exactly two distinct entries. *)
GroupToEntries(db, g) ==
    {row.subcluster_entry_id : row \in {x \in db.AlignmentGroupEntry :
        /\ x.alignment_group_id = g
        /\ \E res \in db.AlignmentResult : res.alignment_group_id = g}}

(* Completed pairs taken only from results that hold ce_rms and tm_rms. *)
CompletedPairs_NeedsAllColumns(db) ==
    LET joined == {row.alignment_group_id : row \in {x \in db.AlignmentGroupEntry :
                      \E res \in db.AlignmentResult :
                          /\ res.alignment_group_id = x.alignment_group_id
                          /\ res.ce_rms # Null /\ res.tm_rms # Null}}
    IN  {GroupToEntries(db, g) : g \in {h \in joined : Cardinality(GroupToEntries(db, h)) = 2}}

(* Completed pairs taken from result-bearing groups of any size. *)
CompletedPairs_AnySize(db) ==
    LET joined == {row.alignment_group_id : row \in {x \in db.AlignmentGroupEntry :
                      \E res \in db.AlignmentResult :
                          res.alignment_group_id = x.alignment_group_id}}
    IN  UNION {{{a, b} : a \in GroupToEntries(db, g), b \in GroupToEntries(db, g)} : g \in joined}

CompletedPairs(db) ==
    LET joined == {row.alignment_group_id : row \in {x \in db.AlignmentGroupEntry :
                      \E res \in db.AlignmentResult :
                          res.alignment_group_id = x.alignment_group_id}}
    IN  {GroupToEntries(db, g) : g \in {h \in joined : Cardinality(GroupToEntries(db, h)) = 2}}

Combinations2(n) == {p \in (1..n) \X (1..n) : p[1] < p[2]}

(* Ordered pairs of distinct positions (permutations) in place of combinations. *)
CombinationSeq_OrderedPairs(n) ==
    LET P == {p \in (1..n) \X (1..n) : p[1] # p[2]}
        Before(q, p) == q[1] < p[1] \/ (q[1] = p[1] /\ q[2] < p[2])
    IN  [k \in 1..Cardinality(P) |->
            CHOOSE p \in P : Cardinality({q \in P : Before(q, p)}) = k - 1]

(* itertools.combinations(list, 2) as positions, in its order *)
CombinationSeq(n) ==
    LET P == Combinations2(n)
        Before(q, p) == q[1] < p[1] \/ (q[1] = p[1] /\ q[2] < p[2])
    IN  [k \in 1..Cardinality(P) |->
            CHOOSE p \in P : Cardinality({q \in P : Before(q, p)}) = k - 1]

(* The pending test asking for every pair to be missing. *)
HasPendingPair_AllMissing(entries, completed) ==
    \A p \in Combinations2(Len(entries)) : {entries[p[1]], entries[p[2]]} \notin completed

HasPendingPair(entries, completed) ==
    \E p \in Combinations2(Len(entries)) : {entries[p[1]], entries[p[2]]} \notin completed

(* The resolver without its test on the number of entries of a cluster. *)
GetClustersWithPendingAlignments_AnySize(cat, db) ==
    LET rep       == RepresentativeEntries(cat)
        clusters  == KeyOrder([i \in 1..Len(rep) |-> cat[rep[i]].cluster_id], <<>>)
        completed == CompletedPairs(db)
        Pending(c) == \/ Len(ClusterToEntries(cat, c)) < 2
                      \/ HasPendingPair(ClusterToEntries(cat, c), completed)
    IN  SelectSeq(clusters, Pending)

GetClustersWithPendingAlignments(cat, db) ==
    LET rep       == RepresentativeEntries(cat)
        clusters  == KeyOrder([i \in 1..Len(rep) |-> cat[rep[i]].cluster_id], <<>>)
        completed == CompletedPairs(db)
        Pending(c) == /\ ~(Len(ClusterToEntries(cat, c)) < 2)
                      /\ HasPendingPair(ClusterToEntries(cat, c), completed)
    IN  SelectSeq(clusters, Pending)

GetEntriesForClusters(cat, cluster_ids) ==
    IF cluster_ids = <<>> THEN <<>>
    ELSE LET Wanted(e) == cat[e].cluster_id \in Range(cluster_ids)
         IN  SelectSeq(RepresentativeEntries(cat), Wanted)

TaskData(cat, c, rows) ==
    LET InC(e) == cat[e].cluster_id = c
        mine   == SelectSeq(rows, InC)
    IN  [cluster_id  |-> c,
         subclusters |-> [i \in 1..Len(mine) |->
                            [subcluster_entry_id |-> mine[i],
                             file_path           |-> cat[mine[i]].file_path,
                             subcluster_id       |-> cat[mine[i]].subcluster_id]]]

(* The tasks one enqueue() call publishes, in order. *)
EnqueuePublishes(cat, db) ==
    LET cluster_ids == GetClustersWithPendingAlignments(cat, db)
        rows        == GetEntriesForClusters(cat, cluster_ids)
        keys        == KeyOrder([i \in 1..Len(rows) |-> cat[rows[i]].cluster_id], <<>>)
        tasks       == [i \in 1..Len(keys) |-> TaskData(cat, keys[i], rows)]
        Enough(t)   == ~(Len(t.subclusters) < 2)
    IN  SelectSeq(tasks, Enough)

Enqueue ==
    /\ last = NoCall
    /\ LET published == EnqueuePublishes(SubclusterEntry, DB)
       IN  /\ Len(queue) + Len(published) <= MaxQueue
           /\ queue' = queue \o published
           /\ last' = [op |-> "enqueue",
                       cluster_ids |-> GetClustersWithPendingAlignments(SubclusterEntry, DB),
                       published |-> published]
    /\ UNCHANGED <<SubclusterEntry, conf_types, types, AlignmentGroup,
                   AlignmentGroupEntry, AlignmentResult, txs>>

(* enqueue() publishing a task for every fetched cluster, whatever its size. *)
EnqueuePublishesAt_NoMinimum(cat, cat2, db) ==
    LET cluster_ids == GetClustersWithPendingAlignments(cat, db)
        rows        == GetEntriesForClusters(cat2, cluster_ids)
        keys        == KeyOrder([i \in 1..Len(rows) |-> cat2[rows[i]].cluster_id], <<>>)
    IN  [i \in 1..Len(keys) |-> TaskData(cat2, keys[i], rows)]

(* enqueue() when the catalog read by the resolver (cat) and the one read by
   the fetch that follows it (cat2) differ: the tasks it publishes. *)
EnqueuePublishesAt(cat, cat2, db) ==
    LET cluster_ids == GetClustersWithPendingAlignments(cat, db)
        rows        == GetEntriesForClusters(cat2, cluster_ids)
        keys        == KeyOrder([i \in 1..Len(rows) |-> cat2[rows[i]].cluster_id], <<>>)
        tasks       == [i \in 1..Len(keys) |-> TaskData(cat2, keys[i], rows)]
        Enough(t)   == ~(Len(t.subclusters) < 2)
    IN  SelectSeq(tasks, Enough)

(* The catalog after at most one upstream change of a representative flag. *)
CatalogChanges(cat) ==
    {cat} \cup {[cat EXCEPT ![e].is_representative = ~@] : e \in DOMAIN cat}

(* enqueue() with an upstream write committed between its two queries; the
   catalog is changed upstream at most once. *)
EnqueueDuringUpstreamChange ==
    /\ last = NoCall
    /\ \E cat2 \in CatalogChanges(SubclusterEntry) :
          /\ cat2 # SubclusterEntry => \E d \in Deployments : d.entries = SubclusterEntry
          /\ Len(queue) + Len(EnqueuePublishesAt(SubclusterEntry, cat2, DB)) <= MaxQueue
          /\ queue' = queue \o EnqueuePublishesAt(SubclusterEntry, cat2, DB)
          /\ SubclusterEntry' = cat2
          /\ last' = [op |-> "enqueue",
                      cluster_ids |-> GetClustersWithPendingAlignments(SubclusterEntry, DB),
                      published |-> EnqueuePublishesAt(SubclusterEntry, cat2, DB),
                      resolved_on |-> SubclusterEntry]
    /\ UNCHANGED <<conf_types, types, AlignmentGroup, AlignmentGroupEntry, AlignmentResult,
                   txs>>

----------------------------------------------------------------------------
(* Persisted alignment states written by other writers *)

(* The entry rows of a group: two entries, one entry, three entries, and
   rows repeating an entry. *)
SeedShapes(ids) ==
    {<<a, b>> \in ids \X ids : a <= b} \cup {<<a>> : a \in ids}
        \cup {<<a, b, c>> \in ids \X ids \X ids : a < b /\ b < c}
        \cup {<<a, a, b>> : a \in {1}, b \in {2}}

SeedRows(g, shape) ==
    {[alignment_group_id |-> g, subcluster_entry_id |-> shape[i],
      copy |-> Cardinality({j \in 1..i : shape[j] = shape[i]})] : i \in DOMAIN shape}

(* db with one more group of the given rows, with or without a result that
   holds only ce_rms. *)
SeedGroup(db, shape, with_result) ==
    LET g  == NewId(db.AlignmentGroup)
        tx == [db EXCEPT !.AlignmentGroup = @ \cup {g},
                         !.AlignmentGroupEntry = @ \cup SeedRows(g, shape)]
    IN  IF with_result
        THEN InsertResult(tx, g, [ce_rms |-> MetricValue(1, shape[1], shape[Len(shape)], "ce_rms")])
        ELSE tx

RECURSIVE SeededStates(_, _)
SeededStates(ids, n) ==
    IF n = 0
    THEN {[AlignmentGroup |-> {}, AlignmentGroupEntry |-> {}, AlignmentResult |-> {}]}
    ELSE LET smaller == SeededStates(ids, n - 1)
         IN  smaller \cup {SeedGroup(db, shape, w) :
                              db \in smaller, shape \in SeedShapes(ids), w \in BOOLEAN}

InitSeeded ==
    /\ \E d \in Deployments :
        /\ SubclusterEntry = d.entries
        /\ conf_types = d.conf_types
        /\ types = FetchTasksInfo(d.conf_types)
        /\ \E db \in SeededStates(DOMAIN d.entries, MaxSeedGroups) :
              /\ AlignmentGroup = db.AlignmentGroup
              /\ AlignmentGroupEntry = db.AlignmentGroupEntry
              /\ AlignmentResult = db.AlignmentResult
    /\ queue = <<>>
    /\ last = NoCall
    /\ txs = [w \in Workers |-> NoTx]

----------------------------------------------------------------------------
(* The comparison capability *)

(* align_task(task_pair_data, conf, logger): NoResult, or the metrics of the
   algorithm for the two files together with the ids and cluster id of the
   pair it was asked about (an algorithm may name the two ids in either
   order). *)
AlignTask(task_pair_data, ok, v, swap) ==
    IF ~ok THEN NoResult
    ELSE LET t  == task_pair_data["alignment_type_id"]
             a  == task_pair_data["subcluster_entry_1_id"]
             b  == task_pair_data["subcluster_entry_2_id"]
         IN  [f \in FieldsOfType(t) |->
                 MetricValue(v, task_pair_data["subcluster_1_file_path"],
                             task_pair_data["subcluster_2_file_path"], f)]
             @@ [subcluster_entry_1_id |-> IF swap THEN b ELSE a,
                 subcluster_entry_2_id |-> IF swap THEN a ELSE b,
                 cluster_id |-> task_pair_data["cluster_id"]]

----------------------------------------------------------------------------
(* process *)

TaskPairData(cluster_id, type_id, s1, s2) ==
    [cluster_id             |-> cluster_id,
     alignment_type_id      |-> type_id,
     subcluster_entry_1_id  |-> s1["subcluster_entry_id"],
     subcluster_entry_2_id  |-> s2["subcluster_entry_id"],
     subcluster_1_file_path |-> s1["file_path"],
     subcluster_2_file_path |-> s2["file_path"]]

InvocationsOf(cluster_id, subclusters, pairs, tseq) ==
    [k \in 1..(Len(pairs) * Len(tseq)) |->
        TaskPairData(cluster_id, tseq[((k - 1) % Len(tseq)) + 1],
                     subclusters[pairs[((k - 1) \div Len(tseq)) + 1][1]],
                     subclusters[pairs[((k - 1) \div Len(tseq)) + 1][2]])]

(* The align_task invocations of one process() call in order: for each
   combination of two list positions, for each loaded type. *)
Invocations(cluster_id, subclusters, ts) ==
    InvocationsOf(cluster_id, subclusters, CombinationSeq(Len(subclusters)), SortedSeq(ts))

(* One step of the merge loop: r's own fields written under its pair's key. *)
MergeFields(r) ==
    LET t == r["alignment_type_id"]
    IN  IF t = 1 THEN [f \in {"ce_rms"} |-> Get(r, f)]
        ELSE IF t = 2
        THEN [tm_rms |-> Get(r, "tm_rms"), tm_seq_id |-> Get(r, "tm_seq_id"),
              tm_score_chain_1 |-> Get(r, "tm_score_chain_1"),
              tm_score_chain_2 |-> Get(r, "tm_score_chain_2")]
        ELSE IF t = 3
        THEN [fc_rms |-> Get(r, "fc_rms"), fc_identity |-> Get(r, "fc_identity"),
              fc_similarity |-> Get(r, "fc_similarity"), fc_score |-> Get(r, "fc_score"),
              fc_align_len |-> Get(r, "fc_align_len")]
        ELSE [f \in {} |-> Null]

(* The merge key as the ordered tuple of the two ids. *)
PairKey_Ordered(r) == <<r["subcluster_entry_1_id"], r["subcluster_entry_2_id"]>>

PairKey(r) == {r["subcluster_entry_1_id"], r["subcluster_entry_2_id"]}

(* pair_results as the sequence of its (key, value) items in insertion order *)
RECURSIVE MergeResults(_, _)
MergeResults(results, acc) ==
    IF results = <<>> THEN acc
    ELSE LET r    == Head(results)
             key  == PairKey(r)
             ids  == [subcluster_entry_1_id |-> r["subcluster_entry_1_id"],
                      subcluster_entry_2_id |-> r["subcluster_entry_2_id"],
                      cluster_id |-> r["cluster_id"]]
             Put(old) == Update(Update(old, ids), MergeFields(r))
             at   == {i \in DOMAIN acc : acc[i].key = key}
         IN  IF at = {}
             THEN MergeResults(Tail(results),
                               Append(acc, [key |-> key, value |-> Put([f \in {} |-> Null])]))
             ELSE MergeResults(Tail(results),
                               [i \in DOMAIN acc |->
                                   IF i \in at THEN [acc[i] EXCEPT !.value = Put(@)]
                                   ELSE acc[i]])

Values(items) == [i \in DOMAIN items |-> items[i].value]

GetList(d, k) == IF k \in DOMAIN d THEN d[k] ELSE <<>>

Truthy(r) == r # NoResult

(* result['alignment_type_id'] = type_id on every result that is returned *)
Tagged(calls, returned) ==
    [k \in DOMAIN calls |->
        IF Truthy(returned[k])
        THEN Update(returned[k], [alignment_type_id |-> calls[k]["alignment_type_id"]])
        ELSE NoResult]

ProcessOutcome(calls, returned, results, merged) ==
    [raised |-> FALSE, calls |-> calls, returned |-> returned,
     results |-> results, merged |-> merged,
     store_called |-> merged # <<>>,
     log |-> [k \in 1..Cardinality({j \in DOMAIN calls : ~Truthy(returned[j])}) |->
                 <<"warning", "no result">>]]

(* A merge that keeps only the pairs every invoked type measured. *)
MergePhase_OnlyCompletePairs(calls, returned, results) ==
    LET all == Values(MergeResults(results, <<>>))
        wanted == UNION {FieldsOfType(calls[k]["alignment_type_id"]) : k \in DOMAIN calls}
        Complete(m) == wanted \subseteq DOMAIN m
    IN  ProcessOutcome(calls, returned, results, SelectSeq(all, Complete))

(* A merge that also emits a record of ids alone for an invocation whose
   pair got no result. *)
MergePhase_RecordForEveryPair(calls, returned, results) ==
    LET Measured(c) ==
            \E i \in DOMAIN results :
                {results[i]["subcluster_entry_1_id"], results[i]["subcluster_entry_2_id"]}
                    = {c["subcluster_entry_1_id"], c["subcluster_entry_2_id"]}
        Unmeasured(c) == ~Measured(c)
        IdsOnly(c) == [subcluster_entry_1_id |-> c["subcluster_entry_1_id"],
                       subcluster_entry_2_id |-> c["subcluster_entry_2_id"],
                       cluster_id |-> c["cluster_id"]]
        bare == SelectSeq(calls, Unmeasured)
    IN  ProcessOutcome(calls, returned, results,
            Values(MergeResults(results, <<>>)) \o [i \in DOMAIN bare |-> IdsOnly(bare[i])])

(* The merge of the collected results and the decision to store. *)
MergePhase(calls, returned, results) ==
    ProcessOutcome(calls, returned, results, Values(MergeResults(results, <<>>)))

(* The loop over pairs and types once every align_task has returned. *)
CollectResults(calls, returned) ==
    MergePhase(calls, returned, SelectSeq(Tagged(calls, returned), Truthy))

(* A loop in which the first invocation without a result ends the run. *)
DispatchLoop_AbortsOnNoResult(calls, env) ==
    IF DOMAIN calls \subseteq env.ok
    THEN CollectResults(calls,
            [k \in DOMAIN calls |->
                AlignTask(calls[k], TRUE, env.v, calls[k]["alignment_type_id"] \in env.swap)])
    ELSE LET stop == CHOOSE k \in DOMAIN calls \ env.ok : \A j \in DOMAIN calls \ env.ok : k <= j
         IN  [raised |-> TRUE, calls |-> SubSeq(calls, 1, stop),
              returned |-> [k \in 1..stop |->
                              AlignTask(calls[k], k \in env.ok, env.v,
                                        calls[k]["alignment_type_id"] \in env.swap)],
              results |-> <<>>, merged |-> <<>>, store_called |-> FALSE,
              log |-> <<<<"error", "processing failed">>>>]

(* env.ok: the invocations (by position) whose algorithm returns a result;
   env.v: the reading of this run; env.swap: the types whose algorithm names
   the pair's ids in reverse. *)
DispatchLoop(calls, env) ==
    CollectResults(calls,
        [k \in DOMAIN calls |->
            AlignTask(calls[k], k \in env.ok, env.v,
                      calls[k]["alignment_type_id"] \in env.swap)])

(* process(data) without the test of its two inputs. *)
ProcessRun_NoValidation(data, ts, env) ==
    DispatchLoop(Invocations(Get(data, "cluster_id"), GetList(data, "subclusters"), ts), env)

(* process(data) up to the call of store_entry. *)
ProcessRun(data, ts, env) ==
    IF Get(data, "cluster_id") = Null \/ GetList(data, "subclusters") = <<>>
    THEN [raised |-> TRUE, calls |-> <<>>, returned |-> <<>>, results |-> <<>>,
          merged |-> <<>>, store_called |-> FALSE,
          log |-> <<<<"error", "missing input">>>>]
    ELSE DispatchLoop(Invocations(data["cluster_id"], data["subclusters"], ts), env)

RunReadings == {1}

ProcessEnvs(n) ==
    [ok : SUBSET (1..n), v : RunReadings, swap : SUBSET types]

(* The rest of process(data): store_entry on the merged records, if any. *)
ProcessStores(data, env, commitFails, p) ==
    IF p.store_called
    THEN \E run \in StoreEntryRuns(DB, [results |-> p.merged],
                                    IF commitFails THEN Len(p.merged) + 1 ELSE 0) :
            /\ AlignmentGroup' = run.db.AlignmentGroup
            /\ AlignmentGroupEntry' = run.db.AlignmentGroupEntry
            /\ AlignmentResult' = run.db.AlignmentResult
            /\ last' = [op |-> "process", data |-> data, env |-> env,
                        before |-> DB, run |-> p,
                        store |-> [entry |-> [results |-> p.merged],
                                   raised |-> run.raised,
                                   inserted |-> run.inserted,
                                   log |-> run.log]]
    ELSE /\ ~commitFails
         /\ UNCHANGED <<AlignmentGroup, AlignmentGroupEntry, AlignmentResult>>
         /\ last' = [op |-> "process", data |-> data, env |-> env,
                     before |-> DB, run |-> p, store |-> NoCall]

Process(data) ==
    /\ last = NoCall
    /\ \E env \in ProcessEnvs(Cardinality(Combinations2(Len(GetList(data, "subclusters"))))
                                * Cardinality(types)),
          commitFails \in BOOLEAN :
            ProcessStores(data, env, commitFails, ProcessRun(data, types, env))
    /\ UNCHANGED <<SubclusterEntry, conf_types, types, txs>>

(* The worker takes the oldest published task and runs process on it. *)
ProcessTask ==
    /\ queue # <<>>
    /\ Process(Head(queue))
    /\ queue' = Tail(queue)

(* Task descriptors handed to process directly: the descriptor of every
   cluster of the catalog (one or more entries), and each of them with its
   cluster id missing or None, its entry list missing or empty, or both
   missing. *)
Descriptors(cat) ==
    LET whole == {TaskData(cat, cat[e].cluster_id, RepresentativeEntries(cat)) :
                    e \in Range(RepresentativeEntries(cat))}
    IN  whole
          \cup {[subclusters |-> t.subclusters] : t \in whole}
          \cup {[cluster_id |-> Null, subclusters |-> t.subclusters] : t \in whole}
          \cup {[cluster_id |-> t.cluster_id] : t \in whole}
          \cup {[cluster_id |-> t.cluster_id, subclusters |-> <<>>] : t \in whole}
          \cup {[unrelated |-> 1]}

ProcessDirect ==
    /\ Cardinality(AlignmentResult) < MaxResults
    /\ \E data \in Descriptors(SubclusterEntry) : Process(data)
    /\ UNCHANGED queue

(* One round: enqueue is called when no published task waits, and every
   task is processed by a run in which each pair of the task gets a result
   from some type and store_entry commits. *)
EnqueueWhenDrained == queue = <<>> /\ Enqueue

RunMeasuredAllPairs(call) ==
    \A i \in DOMAIN call.data["subclusters"], j \in DOMAIN call.data["subclusters"] :
        i < j =>
            \E k \in DOMAIN call.run.calls :
                /\ call.run.returned[k] # NoResult
                /\ call.run.calls[k]["subcluster_entry_1_id"]
                      = call.data["subclusters"][i]["subcluster_entry_id"]
                /\ call.run.calls[k]["subcluster_entry_2_id"]
                      = call.data["subclusters"][j]["subcluster_entry_id"]

ProcessTaskMeasured ==
    /\ ProcessTask
    /\ RunMeasuredAllPairs(last')
    /\ last'.store # NoCall
    /\ ~last'.store.raised

----------------------------------------------------------------------------
(* Directly stored batches *)

MergedRecord(id1, id2, c, S, v) ==
    [f \in UNION {FieldsOfType(t) : t \in S} |-> MetricValue(v, id1, id2, f)]
        @@ [subcluster_entry_1_id |-> id1, subcluster_entry_2_id |-> id2, cluster_id |-> c]

(* Pairs in both orders, a pair with an id that may not resolve, a record of
   an entry with itself, and a record without its cluster_id key. *)
BatchPairs == {<<1, 2>>, <<2, 1>>, <<1, 4>>, <<2, 2>>}

BatchRecords ==
    {MergedRecord(p[1], p[2], 1, {1}, v) : p \in BatchPairs, v \in Readings}
        \cup {[subcluster_entry_1_id |-> 1, subcluster_entry_2_id |-> 2, ce_rms |-> 7]}

Batches == UNION {[1..n -> BatchRecords] : n \in 0..MaxBatch}

StoreEntry ==
    /\ last = NoCall
    /\ \E results \in Batches, dbFailAt \in (0 - MaxBatch)..(MaxBatch + 1) :
        /\ dbFailAt <= Len(results) + 1
        /\ 0 - dbFailAt <= Len(results)
        /\ \E run \in StoreEntryRuns(DB, [results |-> results], dbFailAt) :
            /\ AlignmentGroup' = run.db.AlignmentGroup
            /\ AlignmentGroupEntry' = run.db.AlignmentGroupEntry
            /\ AlignmentResult' = run.db.AlignmentResult
            /\ last' = [op |-> "store_entry", entry |-> [results |-> results],
                        dbFailAt |-> dbFailAt, before |-> DB, raised |-> run.raised,
                        inserted |-> run.inserted, log |-> run.log]
    /\ UNCHANGED <<SubclusterEntry, conf_types, types, queue, txs>>

Return ==
    /\ last # NoCall
    /\ last' = NoCall
    /\ UNCHANGED <<SubclusterEntry, conf_types, types, AlignmentGroup,
                   AlignmentGroupEntry, AlignmentResult, queue, txs>>

----------------------------------------------------------------------------
(* store_entry calls of concurrent workers.  Each worker has its own session
   and transaction; a query sees the committed rows and the rows its own
   transaction has flushed (read committed); ids come from sequences shared
   by all transactions. *)

(* A: one cluster with three representatives.  C: two clusters with two
   representatives each.  D: a cluster with three representatives and a
   cluster with two. *)
ConcurrentCatalogs ==
    { 1 :> Entry(1, TRUE, 1) @@ 2 :> Entry(1, TRUE, 2) @@ 3 :> Entry(1, TRUE, 3),
      1 :> Entry(1, TRUE, 1) @@ 2 :> Entry(1, TRUE, 2) @@ 3 :> Entry(2, TRUE, 3)
        @@ 4 :> Entry(2, TRUE, 4),
      1 :> Entry(1, TRUE, 1) @@ 2 :> Entry(1, TRUE, 2) @@ 3 :> Entry(1, TRUE, 3)
        @@ 4 :> Entry(2, TRUE, 4) @@ 5 :> Entry(2, TRUE, 5) }

InitConcurrent ==
    /\ SubclusterEntry \in ConcurrentCatalogs
    /\ conf_types = {1}
    /\ types = FetchTasksInfo({1})
    /\ AlignmentGroup = {}
    /\ AlignmentGroupEntry = {}
    /\ AlignmentResult = {}
    /\ queue = <<>>
    /\ last = NoCall
    /\ txs = [w \in Workers |-> NoTx]

(* The merged records process hands to store_entry for cluster c when type 1
   measured every pair with reading v. *)
ClusterBatch(cat, c, v) ==
    LET entries == ClusterToEntries(cat, c)
        pairs   == CombinationSeq(Len(entries))
    IN  [k \in DOMAIN pairs |->
            MergedRecord(entries[pairs[k][1]], entries[pairs[k][2]], c, {1}, v)]

(* What the queries of worker w see. *)
TxView(w) ==
    [AlignmentGroup      |-> AlignmentGroup \cup txs[w].writes.AlignmentGroup,
     AlignmentGroupEntry |-> AlignmentGroupEntry \cup txs[w].writes.AlignmentGroupEntry,
     AlignmentResult     |-> AlignmentResult \cup txs[w].writes.AlignmentResult]

(* The next values of the id sequences; a value taken by a transaction that
   was rolled back is not handed out again. *)
NextGroupId ==
    NewId(AlignmentGroup \cup UNION {txs[w].touched : w \in Workers})

NextResultId ==
    NewId(Ids(AlignmentResult) \cup UNION {txs[w].result_ids : w \in Workers})

(* The groups with a row the group query's filter on the two ids selects. *)
GroupsRead(tx, id1, id2) ==
    {row.alignment_group_id : row \in {x \in tx.AlignmentGroupEntry :
                                          x.subcluster_entry_id \in {id1, id2}}}

(* A worker enters store_entry with the merged records of a cluster. *)
BeginStore(w) ==
    /\ txs[w].status = "idle"
    /\ \E c \in {SubclusterEntry[e].cluster_id : e \in DOMAIN SubclusterEntry} :
          /\ Len(ClusterToEntries(SubclusterEntry, c)) >= 2
          /\ txs' = [txs EXCEPT ![w] =
                [NoTx EXCEPT !.status = "running", !.cluster_id = c,
                             !.batch = ClusterBatch(SubclusterEntry, c, w)]]
    /\ UNCHANGED <<SubclusterEntry, conf_types, types, AlignmentGroup,
                   AlignmentGroupEntry, AlignmentResult, queue, last>>

(* The group query of the current record and, when it finds no group, the
   creation and flush of the group and its two entry rows. *)
GroupQueryStep(w) ==
    /\ txs[w].status = "running"
    /\ txs[w].phase = "group"
    /\ txs[w].i <= Len(txs[w].batch)
    /\ LET r     == txs[w].batch[txs[w].i]
           id1   == r["subcluster_entry_1_id"]
           id2   == r["subcluster_entry_2_id"]
           found == FindGroups(TxView(w), id1, id2)
           read  == GroupsRead(TxView(w), id1, id2) \cup found
       IN  IF found = {}
           THEN txs' = [txs EXCEPT ![w] =
                    [@ EXCEPT !.phase = "result", !.group = NextGroupId,
                              !.touched = @ \cup read \cup {NextGroupId},
                              !.writes = NewGroupWithEntriesAs(@, NextGroupId, id1, id2)]]
           ELSE \E g \in found :
                    txs' = [txs EXCEPT ![w] =
                        [@ EXCEPT !.phase = "result", !.group = g,
                                  !.touched = @ \cup read]]
    /\ UNCHANGED <<SubclusterEntry, conf_types, types, AlignmentGroup,
                   AlignmentGroupEntry, AlignmentResult, queue, last>>

(* The existing-result query of the current record and, when it finds none,
   the new AlignmentResult added to the session. *)
ResultQueryStep(w) ==
    /\ txs[w].status = "running"
    /\ txs[w].phase = "result"
    /\ LET r == txs[w].batch[txs[w].i]
           g == txs[w].group
       IN  IF ResultsOfGroup(TxView(w), g) # {}
           THEN txs' = [txs EXCEPT ![w] = [@ EXCEPT !.phase = "group", !.i = @ + 1]]
           ELSE txs' = [txs EXCEPT ![w] =
                    [@ EXCEPT !.phase = "group", !.i = @ + 1,
                              !.result_ids = @ \cup {NextResultId},
                              !.writes = [@ EXCEPT !.AlignmentResult =
                                            @ \cup {NewResultRowAs(NextResultId, g, r)}]]]
    /\ UNCHANGED <<SubclusterEntry, conf_types, types, AlignmentGroup,
                   AlignmentGroupEntry, AlignmentResult, queue, last>>

(* session.commit() after the last record. *)
CommitStep(w) ==
    /\ txs[w].status = "running"
    /\ txs[w].i > Len(txs[w].batch)
    /\ AlignmentGroup' = AlignmentGroup \cup txs[w].writes.AlignmentGroup
    /\ AlignmentGroupEntry' = AlignmentGroupEntry \cup txs[w].writes.AlignmentGroupEntry
    /\ AlignmentResult' = AlignmentResult \cup txs[w].writes.AlignmentResult
    /\ txs' = [txs EXCEPT ![w] = [@ EXCEPT !.status = "committed", !.writes = NoRows]]
    /\ UNCHANGED <<SubclusterEntry, conf_types, types, queue, last>>

(* A statement or the commit raises: session.rollback(). *)
RollbackStep(w) ==
    /\ txs[w].status = "running"
    /\ txs' = [txs EXCEPT ![w] = [@ EXCEPT !.status = "rolled back", !.writes = NoRows]]
    /\ UNCHANGED <<SubclusterEntry, conf_types, types, AlignmentGroup,
                   AlignmentGroupEntry, AlignmentResult, queue, last>>

NextConcurrent ==
    \E w \in Workers :
        \/ BeginStore(w)
        \/ GroupQueryStep(w)
        \/ ResultQueryStep(w)
        \/ CommitStep(w)
        \/ RollbackStep(w)

SpecConcurrent == InitConcurrent /\ [][NextConcurrent]_vars

NextStore == StoreEntry \/ Return

SpecStore == Init /\ [][NextStore]_vars

NextEnqueue == EnqueueDuringUpstreamChange \/ Return

NextProcess == ProcessDirect \/ Return

NextRound == EnqueueWhenDrained \/ ProcessTaskMeasured \/ Return

SpecRound == Init /\ [][NextRound]_vars

SpecProcess == Init /\ [][NextProcess]_vars

SpecEnqueue == InitSeeded /\ [][NextEnqueue]_vars

Next == Enqueue \/ ProcessTask \/ Return

Spec == Init /\ [][Next]_vars

(* Enqueue is enabled exactly in these states, and an Enqueue step is the
   only step into a state where enqueue has just returned. *)
EnqueueEnabled ==
    /\ last = NoCall
    /\ Len(queue) + Len(EnqueuePublishes(SubclusterEntry, DB)) <= MaxQueue

(* ProcessTask is enabled exactly in these states, and a ProcessTask step is
   the only step into a state where process has just returned. *)
TaskWaiting == last = NoCall /\ queue # <<>>

(* Every call returns; the scheduler calls enqueue again and again, and a
   worker takes a task when tasks wait again and again (strong fairness of
   Enqueue and of ProcessTask, written with the state predicates above). *)
SpecFair ==
    /\ Spec
    /\ WF_vars(Return)
    /\ ([]<>EnqueueEnabled => []<>(last.op = "enqueue"))
    /\ ([]<>TaskWaiting => []<>(last.op = "process"))

----------------------------------------------------------------------------
(* Properties of the idempotent store *)

MembersIn(db, g) ==
    {row.subcluster_entry_id : row \in {x \in db.AlignmentGroupEntry : x.alignment_group_id = g}}

RowsIn(db, g) == {x \in db.AlignmentGroupEntry : x.alignment_group_id = g}

ResultsIn(db, g) == {x \in db.AlignmentResult : x.alignment_group_id = g}

GroupsOfPair(db, a, b) == {g \in db.AlignmentGroup : MembersIn(db, g) = {a, b}}

Resolves(r) ==
    /\ RequiredKeys \subseteq DOMAIN r
    /\ r["subcluster_entry_1_id"] \in DOMAIN SubclusterEntry
    /\ r["subcluster_entry_2_id"] \in DOMAIN SubclusterEntry

StoreReturned == last.op = "store_entry"

(* A record of the returned store_entry call whose pair already had a group
   with a result before the call. *)
HadResult(r) ==
    /\ Resolves(r)
    /\ \E g \in GroupsOfPair(last.before, r["subcluster_entry_1_id"], r["subcluster_entry_2_id"]) :
          ResultsIn(last.before, g) # {}

(* C1: after any sequence of store_entry calls, whatever the batches and
   whether they committed or were rolled back, no AlignmentGroup has two
   AlignmentResult rows. *)
C1_AtMostOneResultPerGroup ==
    \A r1 \in AlignmentResult, r2 \in AlignmentResult :
        r1.alignment_group_id = r2.alignment_group_id => r1 = r2

(* A committed call whose every record named a pair that already had its
   result: nothing was inserted. *)
C1_Witness ==
    /\ StoreReturned /\ ~last.raised /\ last.inserted = 0
    /\ Len(last.entry["results"]) = MaxBatch
    /\ \A i \in DOMAIN last.entry["results"] : HadResult(last.entry["results"][i])

(* C2: two distinct entries never have two groups whose members are exactly
   that pair; a group a store_entry call adds has two entry rows and is for
   a pair that had no group before the call, in whichever order the record
   names the two ids. *)
C2_AtMostOneGroupPerPair ==
    /\ \A a \in DOMAIN SubclusterEntry, b \in DOMAIN SubclusterEntry :
          a # b => Cardinality(GroupsOfPair(DB, a, b)) <= 1
    /\ StoreReturned =>
          \A g \in AlignmentGroup \ last.before.AlignmentGroup :
              /\ Cardinality(RowsIn(DB, g)) = 2
              /\ \A h \in last.before.AlignmentGroup :
                    MembersIn(last.before, h) # MembersIn(DB, g)

(* One committed batch that names the same new pair as (1, 2) and then as
   (2, 1): one group. *)
C2_Witness ==
    /\ StoreReturned /\ ~last.raised
    /\ Len(last.entry["results"]) = 2
    /\ Resolves(last.entry["results"][1]) /\ Resolves(last.entry["results"][2])
    /\ last.entry["results"][1]["subcluster_entry_1_id"] = 1
    /\ last.entry["results"][1]["subcluster_entry_2_id"] = 2
    /\ last.entry["results"][2]["subcluster_entry_1_id"] = 2
    /\ last.entry["results"][2]["subcluster_entry_2_id"] = 1
    /\ GroupsOfPair(last.before, 1, 2) = {}
    /\ Cardinality(GroupsOfPair(DB, 1, 2)) = 1

(* C3: a committed store_entry call leaves every earlier result row as it
   was; for a record whose pair already had a group with a result it adds no
   group, entry row or result row of that pair; and a call whose only record
   is such a record changes nothing at all. *)
C3_ExistingResultUntouched ==
    (StoreReturned /\ ~last.raised) =>
        \A i \in DOMAIN last.entry["results"] :
            LET r == last.entry["results"][i]
                a == r["subcluster_entry_1_id"]
                b == r["subcluster_entry_2_id"]
            IN  HadResult(r) =>
                  /\ last.before.AlignmentResult \subseteq AlignmentResult
                  /\ GroupsOfPair(DB, a, b) = GroupsOfPair(last.before, a, b)
                  /\ \A g \in GroupsOfPair(DB, a, b) :
                        /\ RowsIn(DB, g) = RowsIn(last.before, g)
                        /\ ResultsIn(DB, g) = ResultsIn(last.before, g)
                  /\ Len(last.entry["results"]) = 1 =>
                        (DB = last.before /\ last.inserted = 0)

(* A committed one-record call for a pair whose stored result holds another
   ce_rms than the record. *)
C3_Witness ==
    /\ StoreReturned /\ ~last.raised
    /\ Len(last.entry["results"]) = 1
    /\ HadResult(last.entry["results"][1])
    /\ \E g \in GroupsOfPair(last.before, last.entry["results"][1]["subcluster_entry_1_id"],
                               last.entry["results"][1]["subcluster_entry_2_id"]) :
          \E row \in ResultsIn(DB, g) : row.ce_rms # Get(last.entry["results"][1], "ce_rms")

NoDuplicates(db) ==
    /\ \A r1 \in db.AlignmentResult, r2 \in db.AlignmentResult :
          r1.alignment_group_id = r2.alignment_group_id => r1 = r2
    /\ \A a \in DOMAIN SubclusterEntry, b \in DOMAIN SubclusterEntry :
          a # b => Cardinality(GroupsOfPair(db, a, b)) <= 1

(* C8: a store_entry call that raises at any record or at commit leaves the
   three tables as they were before the call, and storing the same batch
   again from there gives no second group of a pair and no second result of
   a group. *)
C8_FailedBatchRolledBack ==
    (StoreReturned /\ last.raised) =>
        /\ DB = last.before
        /\ \A retry \in StoreEntryRuns(DB, last.entry, 0) : NoDuplicates(retry.db)

(* A call that raised at its second record after its first record had added
   a group and a result inside the transaction. *)
C8_Witness ==
    /\ StoreReturned /\ last.raised /\ last.inserted = 1
    /\ Len(last.entry["results"]) = 2
    /\ GroupsOfPair(last.before, last.entry["results"][1]["subcluster_entry_1_id"],
                    last.entry["results"][1]["subcluster_entry_2_id"]) = {}
    /\ \E retry \in StoreEntryRuns(DB, last.entry, 0) : ~retry.raised /\ retry.inserted = 1

----------------------------------------------------------------------------
(* Properties of the pending-work resolver *)

ClusterIds == {SubclusterEntry[e].cluster_id : e \in DOMAIN SubclusterEntry}

Representatives(c) ==
    {e \in DOMAIN SubclusterEntry :
        SubclusterEntry[e].is_representative /\ SubclusterEntry[e].cluster_id = c}

(* Some group whose members are exactly a and b has a stored result. *)
PairHasResult(a, b) == \E g \in GroupsOfPair(DB, a, b) : ResultsIn(DB, g) # {}

ExpectedPending ==
    {c \in ClusterIds :
        /\ Cardinality(Representatives(c)) >= 2
        /\ \E a \in Representatives(c), b \in Representatives(c) :
              a < b /\ ~PairHasResult(a, b)}

(* C4: in every persisted state the resolver returns, each once, exactly the
   clusters with two or more representatives of which some unordered pair
   has no two-member group with a stored result; which metric columns the
   result fills plays no part. *)
C4_PendingIffSomePairUnresolved ==
    /\ Range(GetClustersWithPendingAlignments(SubclusterEntry, DB)) = ExpectedPending
    /\ Len(GetClustersWithPendingAlignments(SubclusterEntry, DB)) = Cardinality(ExpectedPending)
    /\ last.op = "enqueue" => Range(last.cluster_ids) = ExpectedPending

(* Three representatives, results for only two of the three pairs, one of
   them without the columns of a configured type: reported pending. *)
C4_Witness ==
    /\ Cardinality(Representatives(1)) = 3
    /\ Cardinality({p \in (DOMAIN SubclusterEntry) \X (DOMAIN SubclusterEntry) :
                        p[1] < p[2] /\ PairHasResult(p[1], p[2])}) = 2
    /\ \E row \in AlignmentResult : row.ce_rms # Null /\ row.tm_rms = Null
    /\ 2 \in types
    /\ GetClustersWithPendingAlignments(SubclusterEntry, DB) = <<1>>

----------------------------------------------------------------------------
(* Properties of process *)

ProcessReturned == last.op = "process"

ValidData(data) ==
    /\ "cluster_id" \in DOMAIN data /\ data["cluster_id"] # Null
    /\ "subclusters" \in DOMAIN data /\ data["subclusters"] # <<>>

ActiveTypes == {t \in StructuralAlignmentTypeIds : t \in conf_types}

PositionPairs(list) == {p \in (DOMAIN list) \X (DOMAIN list) : p[1] < p[2]}

EntryIdAt(i) == last.data["subclusters"][i]["subcluster_entry_id"]

(* Invocation k of the returned process call was for positions i, j and type t. *)
CallIsFor(k, i, j, t) ==
    /\ last.run.calls[k]["alignment_type_id"] = t
    /\ last.run.calls[k]["subcluster_entry_1_id"] = EntryIdAt(i)
    /\ last.run.calls[k]["subcluster_entry_2_id"] = EntryIdAt(j)

GaveResult(k) == last.run.returned[k] # NoResult

(* The types whose invocation for positions i, j returned a result. *)
MeasuredTypes(i, j) ==
    {t \in ActiveTypes : \E k \in DOMAIN last.run.calls : CallIsFor(k, i, j, t) /\ GaveResult(k)}

RecordIsOfPair(rec, a, b) ==
    {rec["subcluster_entry_1_id"], rec["subcluster_entry_2_id"]} = {a, b}

StoredRecords == IF last.store = NoCall THEN <<>> ELSE last.store.entry["results"]

(* Pair a, b has a stored result holding every column of type t. *)
MeasuredBy(a, b, t) ==
    \E g \in GroupsOfPair(DB, a, b) : \E row \in ResultsIn(DB, g) :
        \A f \in FieldsOfType(t) : row[f] # Null

EveryPairMeasuredByEachType ==
    \A c \in ClusterIds : \A a \in Representatives(c), b \in Representatives(c) :
        a < b => \A t \in ActiveTypes : MeasuredBy(a, b, t)

(* Every invocation of the process call that just returned gave a result,
   and its store, if any, committed. *)
AlgorithmsSucceed ==
    ProcessReturned =>
        /\ ~last.run.raised
        /\ last.env.ok = DOMAIN last.run.calls
        /\ last.store # NoCall => ~last.store.raised

(* C5: when from some point on every invocation of every algorithm returns a
   result, repeated enqueue/process cycles lead to a state where every
   unordered pair of representatives of every cluster has a stored
   measurement from each configured type. *)
C5_EventuallyMeasuredByEachType ==
    <>[]AlgorithmsSucceed => <>EveryPairMeasuredByEachType

(* C6: with any invocations returning no result, process still invokes every
   type on every pair of the task, and every result that is returned reaches
   store_entry inside the record of its pair. *)
C6_NoResultIsLocal ==
    (ProcessReturned /\ ValidData(last.data)) =>
        /\ ~last.run.raised
        /\ \A p \in PositionPairs(last.data["subclusters"]), t \in ActiveTypes :
              \E k \in DOMAIN last.run.calls : CallIsFor(k, p[1], p[2], t)
        /\ \A k \in DOMAIN last.run.calls :
              (k \in DOMAIN last.run.returned /\ GaveResult(k)) =>
                \E m \in DOMAIN StoredRecords :
                    /\ RecordIsOfPair(StoredRecords[m],
                                      last.run.calls[k]["subcluster_entry_1_id"],
                                      last.run.calls[k]["subcluster_entry_2_id"])
                    /\ \A f \in FieldsOfType(last.run.calls[k]["alignment_type_id"]) :
                          /\ f \in DOMAIN StoredRecords[m]
                          /\ StoredRecords[m][f] = last.run.returned[k][f]

(* The first invocation of a task of several pairs returned no result, all
   later ones returned results, and store_entry was called. *)
C6_Witness ==
    /\ ProcessReturned
    /\ Len(last.run.calls) >= 4
    /\ Len(last.run.returned) = Len(last.run.calls)
    /\ ~GaveResult(1)
    /\ \A k \in 2..Len(last.run.calls) : GaveResult(k)
    /\ last.store # NoCall

(* C7: for a pair on which one type returned no result and another returned
   a result, process passes store_entry one record of the pair whose keys
   are the ids, the cluster id and the fields of the types that returned a
   result, with the returned values; once that call commits the pair has one
   group with one result, and when the pair had no group before, that result
   holds those values and Null in every other metric column. *)
C7_PartialPairStored ==
    (ProcessReturned /\ ValidData(last.data)) =>
        \A p \in PositionPairs(last.data["subclusters"]) :
            LET a  == EntryIdAt(p[1])
                b  == EntryIdAt(p[2])
                ok == MeasuredTypes(p[1], p[2])
                fields == UNION {FieldsOfType(t) : t \in ok}
                mine == {m \in DOMAIN StoredRecords : RecordIsOfPair(StoredRecords[m], a, b)}
            IN  (ok # {} /\ ok # ActiveTypes) =>
                  /\ Cardinality(mine) = 1
                  /\ \A m \in mine :
                        /\ DOMAIN StoredRecords[m] = RequiredKeys \cup fields
                        /\ \A k \in DOMAIN last.run.calls, t \in ok :
                              (CallIsFor(k, p[1], p[2], t) /\ GaveResult(k)) =>
                                \A f \in FieldsOfType(t) :
                                    StoredRecords[m][f] = last.run.returned[k][f]
                        /\ ~last.store.raised =>
                              /\ Cardinality(GroupsOfPair(DB, a, b)) = 1
                              /\ \A g \in GroupsOfPair(DB, a, b) :
                                    Cardinality(ResultsIn(DB, g)) = 1
                        /\ (~last.store.raised /\ GroupsOfPair(last.before, a, b) = {}) =>
                              \A g \in GroupsOfPair(DB, a, b) : \A row \in ResultsIn(DB, g) :
                                  \A f \in Range(MetricFields) :
                                      row[f] = IF f \in fields THEN StoredRecords[m][f] ELSE Null

(* A committed run that stored a new result for a pair one type measured
   and another did not. *)
C7_Witness ==
    /\ ProcessReturned /\ last.store # NoCall /\ ~last.store.raised
    /\ \E p \in PositionPairs(last.data["subclusters"]) :
          /\ MeasuredTypes(p[1], p[2]) # {}
          /\ MeasuredTypes(p[1], p[2]) # ActiveTypes
          /\ GroupsOfPair(last.before, EntryIdAt(p[1]), EntryIdAt(p[2])) = {}
          /\ \E g \in GroupsOfPair(DB, EntryIdAt(p[1]), EntryIdAt(p[2])) :
                \E row \in ResultsIn(DB, g) : row.ce_rms = Null /\ row.tm_rms # Null

(* C9: the merge gives one record for each unordered pair that got a result
   and none for any other pair; a record holds the fields of exactly the
   types that returned a result for its own pair, each with the value that
   type returned for that pair. *)
C9_MergeOnePerPair ==
    (ProcessReturned /\ ValidData(last.data)) =>
        LET merged == last.run.merged
            KeyOf(rec) == {rec["subcluster_entry_1_id"], rec["subcluster_entry_2_id"]}
        IN  /\ \A m1 \in DOMAIN merged, m2 \in DOMAIN merged :
                  KeyOf(merged[m1]) = KeyOf(merged[m2]) => m1 = m2
            /\ {KeyOf(merged[m]) : m \in DOMAIN merged}
                  = {{EntryIdAt(p[1]), EntryIdAt(p[2])} :
                        p \in {q \in PositionPairs(last.data["subclusters"]) :
                                  MeasuredTypes(q[1], q[2]) # {}}}
            /\ \A m \in DOMAIN merged, p \in PositionPairs(last.data["subclusters"]) :
                  KeyOf(merged[m]) = {EntryIdAt(p[1]), EntryIdAt(p[2])} =>
                    /\ DOMAIN merged[m] = RequiredKeys
                            \cup UNION {FieldsOfType(t) : t \in MeasuredTypes(p[1], p[2])}
                    /\ merged[m]["cluster_id"] = last.data["cluster_id"]
                    /\ \A k \in DOMAIN last.run.calls, t \in ActiveTypes :
                          (CallIsFor(k, p[1], p[2], t) /\ GaveResult(k)) =>
                            \A f \in FieldsOfType(t) :
                                merged[m][f] = last.run.returned[k][f]

(* Two pairs with results; for one of them two types returned a result and
   named the two ids in opposite orders. *)
C9_Witness ==
    /\ ProcessReturned
    /\ Len(last.run.merged) >= 2
    /\ \E k1 \in DOMAIN last.run.returned, k2 \in DOMAIN last.run.returned :
          /\ GaveResult(k1) /\ GaveResult(k2)
          /\ last.run.returned[k1]["subcluster_entry_1_id"]
                = last.run.returned[k2]["subcluster_entry_2_id"]
          /\ last.run.returned[k1]["subcluster_entry_2_id"]
                = last.run.returned[k2]["subcluster_entry_1_id"]

(* C10: for a task of n entries and k configured types process makes
   C(n,2) * k invocations, exactly one for each unordered pair of entries and
   configured type, none of an entry with itself, none for a type that is
   not configured, each with the file paths of its two entries. *)
C10_OneInvocationPerPairAndType ==
    (ProcessReturned /\ ValidData(last.data)) =>
        LET subs  == last.data["subclusters"]
            calls == last.run.calls
            n     == Len(subs)
        IN  /\ Len(calls) * 2 = n * (n - 1) * Cardinality(ActiveTypes)
            /\ \A p \in PositionPairs(subs), t \in ActiveTypes :
                  Cardinality({k \in DOMAIN calls :
                      /\ calls[k]["alignment_type_id"] = t
                      /\ {calls[k]["subcluster_entry_1_id"], calls[k]["subcluster_entry_2_id"]}
                            = {EntryIdAt(p[1]), EntryIdAt(p[2])}}) = 1
            /\ \A k \in DOMAIN calls :
                  /\ calls[k]["subcluster_entry_1_id"] # calls[k]["subcluster_entry_2_id"]
                  /\ calls[k]["alignment_type_id"] \in ActiveTypes
                  /\ calls[k]["subcluster_1_file_path"]
                        = SubclusterEntry[calls[k]["subcluster_entry_1_id"]].file_path
                  /\ calls[k]["subcluster_2_file_path"]
                        = SubclusterEntry[calls[k]["subcluster_entry_2_id"]].file_path

(* A task of three entries with two of the three known types configured:
   six invocations. *)
C10_Witness ==
    /\ ProcessReturned
    /\ Len(last.data["subclusters"]) = 3
    /\ Cardinality(ActiveTypes) = 2
    /\ ActiveTypes # StructuralAlignmentTypeIds
    /\ Len(last.run.calls) = 6

----------------------------------------------------------------------------
(* Properties of enqueue and of the resolver over any persisted state *)

EnqueueReturned == last.op = "enqueue"

TaskIsOfCluster(task, c) ==
    /\ task["cluster_id"] = c
    /\ Len(task["subclusters"]) = Cardinality(Representatives(c))
    /\ {task["subclusters"][i]["subcluster_entry_id"] : i \in DOMAIN task["subclusters"]}
          = Representatives(c)
    /\ \A i \in DOMAIN task["subclusters"] :
          LET sub == task["subclusters"][i]
          IN  /\ sub["file_path"] = SubclusterEntry[sub["subcluster_entry_id"]].file_path
              /\ sub["subcluster_id"] = SubclusterEntry[sub["subcluster_entry_id"]].subcluster_id

(* C11: one enqueue call publishes one task for each cluster its resolver
   pass reported that has two or more representatives when the entries are
   fetched, and no other task; a task holds the cluster id and all the
   representatives of the cluster as fetched, with their file paths; the
   tasks are appended to the queue, none when no cluster qualifies. *)
C11_OneTaskPerPendingCluster ==
    (EnqueueReturned /\ "resolved_on" \in DOMAIN last) =>
        LET fetched == {c \in Range(last.cluster_ids) : Cardinality(Representatives(c)) >= 2}
            tasks   == last.published
        IN  /\ Len(tasks) = Cardinality(fetched)
            /\ {tasks[i]["cluster_id"] : i \in DOMAIN tasks} = fetched
            /\ \A i \in DOMAIN tasks : TaskIsOfCluster(tasks[i], tasks[i]["cluster_id"])
            /\ Len(queue) >= Len(tasks)
            /\ SubSeq(queue, Len(queue) - Len(tasks) + 1, Len(queue)) = tasks

(* Two clusters were reported pending; one of them fell to a single
   representative before the fetch and got no task, the other got its task. *)
C11_Witness ==
    /\ EnqueueReturned /\ "resolved_on" \in DOMAIN last
    /\ Len(last.cluster_ids) = 2
    /\ Len(last.published) = 1
    /\ \E c \in Range(last.cluster_ids) : Cardinality(Representatives(c)) = 1

(* C12: in every persisted state a cluster with fewer than two
   representatives is neither in the resolver's list nor given a task by
   enqueue, whatever groups and results are stored. *)
C12_SmallClusterNeverPending ==
    \A c \in ClusterIds :
        Cardinality(Representatives(c)) < 2 =>
            /\ c \notin Range(GetClustersWithPendingAlignments(SubclusterEntry, DB))
            /\ \A i \in DOMAIN EnqueuePublishes(SubclusterEntry, DB) :
                  EnqueuePublishes(SubclusterEntry, DB)[i]["cluster_id"] # c
            /\ EnqueueReturned =>
                  \A i \in DOMAIN last.published : last.published[i]["cluster_id"] # c

(* The single representative of a cluster sits in a stored group without a
   result and in no group with one, and enqueue has returned. *)
C12_Witness ==
    /\ EnqueueReturned
    /\ \E c \in ClusterIds : \E e \in Representatives(c) :
          /\ Representatives(c) = {e}
          /\ \E g \in AlignmentGroup : e \in MembersIn(DB, g) /\ ResultsIn(DB, g) = {}
          /\ \A g \in AlignmentGroup : e \in MembersIn(DB, g) => ResultsIn(DB, g) = {}

(* C18: a stored result completes a pair only through a group whose distinct
   member entries are exactly the two of the pair; a result-bearing group
   with one member or with three or more completes no pair, so a cluster
   with a pair whose results all sit in such groups is reported pending. *)
C18_OnlyTwoMemberGroupsComplete ==
    /\ CompletedPairs(DB)
          = {MembersIn(DB, g) : g \in {h \in AlignmentGroup :
                ResultsIn(DB, h) # {} /\ Cardinality(MembersIn(DB, h)) = 2}}
    /\ \A c \in ClusterIds : \A a \in Representatives(c), b \in Representatives(c) :
          (a < b /\ \A g \in AlignmentGroup :
                        ({a, b} \subseteq MembersIn(DB, g) /\ ResultsIn(DB, g) # {})
                            => Cardinality(MembersIn(DB, g)) >= 3)
            => c \in Range(GetClustersWithPendingAlignments(SubclusterEntry, DB))

(* The only result naming both entries of a pair sits in a group of three
   members, a group of one member has a result too, and the cluster of the
   pair was reported pending by the enqueue call that just returned. *)
C18_Witness ==
    /\ EnqueueReturned
    /\ \E g \in AlignmentGroup : Cardinality(MembersIn(DB, g)) = 1 /\ ResultsIn(DB, g) # {}
    /\ \E c \in Range(last.cluster_ids) :
          \E a \in Representatives(c), b \in Representatives(c) :
            /\ a < b
            /\ \E g \in AlignmentGroup :
                  /\ {a, b} \subseteq MembersIn(DB, g)
                  /\ Cardinality(MembersIn(DB, g)) = 3
                  /\ ResultsIn(DB, g) # {}
            /\ Cardinality(Representatives(c)) = 2

----------------------------------------------------------------------------
(* Properties of process over any descriptor *)

(* C13: process fails as a whole exactly when the descriptor has no cluster
   id or no entries; then no capability is invoked, store_entry is not
   called and the persisted state is as before; every other descriptor is
   processed: each of its pairs is submitted to each loaded type. *)
C13_MissingInputFailsUnit ==
    ProcessReturned =>
        /\ last.run.raised <=> ~ValidData(last.data)
        /\ last.run.raised =>
              /\ last.run.calls = <<>>
              /\ last.store = NoCall
              /\ DB = last.before
        /\ ~last.run.raised =>
              LET n == Len(last.data["subclusters"])
              IN  /\ Len(last.run.calls) * 2 = n * (n - 1) * Cardinality(ActiveTypes)
                  /\ Len(last.run.returned) = Len(last.run.calls)
                  /\ (\E k \in DOMAIN last.run.calls : GaveResult(k)) => last.store # NoCall

(* On a state that already holds a result, process returned for a
   descriptor with entries and no cluster id. *)
C13_Witness ==
    /\ ProcessReturned
    /\ "subclusters" \in DOMAIN last.data
    /\ Len(last.data["subclusters"]) >= 2
    /\ "cluster_id" \notin DOMAIN last.data
    /\ last.run.raised
    /\ AlignmentResult # {}

----------------------------------------------------------------------------
(* Properties of store_entry on records that do not resolve *)

(* Some group with a result has exactly two entry rows among the ids of r. *)
HasStoredResult(db, r) ==
    \E g \in db.AlignmentGroup :
        /\ Cardinality({row \in RowsIn(db, g) :
              row.subcluster_entry_id \in {r["subcluster_entry_1_id"], r["subcluster_entry_2_id"]}}) = 2
        /\ ResultsIn(db, g) # {}

(* C14: a record with an id that is no SubclusterEntry is reported and
   skipped: no entry row ever names such an id and every group a call adds
   is for the two ids of a resolving record of its batch; the call still
   commits, and every resolving record of the batch has its result stored,
   the count of inserted results being the number of results added. *)
C14_UnresolvedRecordSkipped ==
    /\ \A row \in AlignmentGroupEntry : row.subcluster_entry_id \in DOMAIN SubclusterEntry
    /\ (StoreReturned /\ \A i \in DOMAIN last.entry["results"] :
                              RequiredKeys \subseteq DOMAIN last.entry["results"][i]) =>
          LET recs == last.entry["results"]
          IN  /\ last.dbFailAt > 0 => last.raised
              /\ last.dbFailAt = 0 => ~last.raised
              /\ \A i \in DOMAIN recs :
                    ~Resolves(recs[i]) =>
                        (last.raised \/
                            <<"error", "entry not found", recs[i]["subcluster_entry_1_id"],
                              recs[i]["subcluster_entry_2_id"]>> \in Range(last.log))
              /\ ~last.raised =>
                    /\ \A i \in DOMAIN recs : Resolves(recs[i]) => HasStoredResult(DB, recs[i])
                    /\ \A g \in AlignmentGroup \ last.before.AlignmentGroup :
                          \E i \in DOMAIN recs :
                              /\ Resolves(recs[i])
                              /\ MembersIn(DB, g) = {recs[i]["subcluster_entry_1_id"],
                                                     recs[i]["subcluster_entry_2_id"]}
                    /\ last.inserted = Cardinality(AlignmentResult)
                                          - Cardinality(last.before.AlignmentResult)

(* A committed batch whose first record names an id that is no entry and
   whose second record had its group and result inserted. *)
C14_Witness ==
    /\ StoreReturned /\ ~last.raised
    /\ Len(last.entry["results"]) = 2
    /\ RequiredKeys \subseteq DOMAIN last.entry["results"][1]
    /\ ~Resolves(last.entry["results"][1])
    /\ Resolves(last.entry["results"][2])
    /\ last.inserted = 1
    /\ Cardinality(AlignmentGroup) = Cardinality(last.before.AlignmentGroup) + 1

----------------------------------------------------------------------------
(* Shape of the persisted groups *)

(* C15: from an empty alignment state, after any store_entry calls, whether
   they committed or raised at any point (before a record, between the flush
   of a new group and its result, at commit), every persisted group has
   exactly two entry rows and exactly one result. *)
C15_GroupHasTwoRowsAndOneResult ==
    \A g \in AlignmentGroup :
        /\ Cardinality(RowsIn(DB, g)) = 2
        /\ Cardinality(ResultsIn(DB, g)) = 1

(* A call that had flushed a new group raised before inserting its result,
   on a state that already held a committed group. *)
C15_Witness ==
    /\ StoreReturned /\ last.raised
    /\ last.dbFailAt < 0
    /\ LET r == last.entry["results"][0 - last.dbFailAt]
       IN  /\ Resolves(r)
           /\ ~HasStoredResult(DB, r)
    /\ AlignmentGroup # {}
    /\ DB = last.before

----------------------------------------------------------------------------
(* Pairs no algorithm measured *)

(* C16: a pair of the task for which every invocation returned no result has
   no merged record, and process leaves its groups and results as they
   were; unless the pair already had a result, its cluster is in the list
   the resolver returns on the state process leaves; when no pair of the
   task got a result, store_entry is not called and nothing changes. *)
C16_UnmeasuredPairStaysPending ==
    (ProcessReturned /\ ValidData(last.data)) =>
        /\ \A p \in PositionPairs(last.data["subclusters"]) :
              LET a == EntryIdAt(p[1])
                  b == EntryIdAt(p[2])
              IN  MeasuredTypes(p[1], p[2]) = {} =>
                    /\ \A m \in DOMAIN last.run.merged :
                          ~RecordIsOfPair(last.run.merged[m], a, b)
                    /\ \A m \in DOMAIN StoredRecords : ~RecordIsOfPair(StoredRecords[m], a, b)
                    /\ GroupsOfPair(DB, a, b) = GroupsOfPair(last.before, a, b)
                    /\ \A g \in GroupsOfPair(DB, a, b) : ResultsIn(DB, g) = ResultsIn(last.before, g)
                    /\ ~PairHasResult(a, b) =>
                          last.data["cluster_id"]
                              \in Range(GetClustersWithPendingAlignments(SubclusterEntry, DB))
        /\ (\A p \in PositionPairs(last.data["subclusters"]) : MeasuredTypes(p[1], p[2]) = {}) =>
              /\ last.run.merged = <<>>
              /\ last.store = NoCall
              /\ DB = last.before

(* Of three pairs one got no result from any type and the other two were
   stored; the cluster is still pending. *)
C16_Witness ==
    /\ ProcessReturned /\ last.store # NoCall /\ ~last.store.raised
    /\ Len(last.data["subclusters"]) = 3
    /\ Cardinality({p \in PositionPairs(last.data["subclusters"]) :
                        MeasuredTypes(p[1], p[2]) = {}}) = 1
    /\ Cardinality(AlignmentGroup) = 2
    /\ Cardinality(AlignmentResult) = 2
    /\ GetClustersWithPendingAlignments(SubclusterEntry, DB) = <<last.data["cluster_id"]>>

----------------------------------------------------------------------------
(* Quiescence after one round *)

(* C20: with the representatives fixed, once enqueue has published and every
   published task was processed by a run that measured each pair at least
   once and committed, the resolver returns the empty list, enqueue has
   nothing to publish, and an enqueue call made then publishes nothing. *)
C20_QuiescentAfterOneRound ==
    /\ (AlignmentGroup # {} /\ queue = <<>>) =>
          /\ GetClustersWithPendingAlignments(SubclusterEntry, DB) = <<>>
          /\ EnqueuePublishes(SubclusterEntry, DB) = <<>>
    /\ (EnqueueReturned /\ AlignmentGroup # {}) =>
          /\ last.cluster_ids = <<>>
          /\ last.published = <<>>
          /\ queue = <<>>

(* The tasks of two clusters were processed, one pair was measured by one
   type only, and a further enqueue call returned. *)
C20_Witness ==
    /\ EnqueueReturned
    /\ Cardinality(ClusterIds) = 2
    /\ Cardinality(AlignmentGroup) = 2
    /\ \E row \in AlignmentResult : row.ce_rms # Null /\ row.tm_rms = Null
    /\ last.published = <<>>

----------------------------------------------------------------------------
(* Concurrent store_entry calls *)

Finished(w) == txs[w].status \in {"committed", "rolled back"}

(* The records worker w has committed. *)
CommittedBatch(w) == IF txs[w].status = "committed" THEN txs[w].batch ELSE <<>>

(* What a group holds apart from the ids its rows were given. *)
GroupContent(db, g) ==
    [rows    |-> {<<row.subcluster_entry_id, row.copy>> : row \in RowsIn(db, g)},
     results |-> {[f \in Range(MetricFields) |-> row[f]] : row \in ResultsIn(db, g)}]

(* The persisted state up to the values of the ids: how many groups hold
   each content. *)
Content(db) ==
    [c \in {GroupContent(db, g) : g \in db.AlignmentGroup} |->
        Cardinality({g \in db.AlignmentGroup : GroupContent(db, g) = c})]

(* The states store_entry leaves when it runs, alone and from the empty
   state, first on the committed records of worker a and then on those of
   worker b. *)
SerialOutcomes(a, b) ==
    UNION {{second.db : second \in StoreEntryRuns(first.db, [results |-> CommittedBatch(b)], 0)} :
             first \in StoreEntryRuns(NoRows, [results |-> CommittedBatch(a)], 0)}

(* C17: two store_entry calls for different clusters, interleaved in any way,
   touch disjoint sets of groups (the groups their queries select and the
   groups they create), and when both have ended the persisted groups, entry
   rows and results are those of running the calls one after the other in
   some order, up to the values the id sequences gave the rows. *)
C17_DifferentClustersDoNotContend ==
    \A w1 \in Workers, w2 \in Workers :
        (/\ w1 < w2
         /\ txs[w1].status # "idle" /\ txs[w2].status # "idle"
         /\ txs[w1].cluster_id # txs[w2].cluster_id) =>
            /\ txs[w1].touched \cap txs[w2].touched = {}
            /\ (Finished(w1) /\ Finished(w2)) =>
                  Content(DB) \in {Content(db) : db \in SerialOutcomes(w1, w2)
                                                        \cup SerialOutcomes(w2, w1)}

(* Both calls committed, and the group the call for the cluster of two
   created lies between two groups of the call for the cluster of three. *)
C17_Witness ==
    /\ \A w \in Workers : txs[w].status = "committed"
    /\ txs[1].cluster_id # txs[2].cluster_id
    /\ \E g1 \in AlignmentGroup, g2 \in AlignmentGroup, g3 \in AlignmentGroup :
          /\ g1 < g2 /\ g2 < g3
          /\ MembersIn(DB, g1) \subseteq {1, 2, 3}
          /\ MembersIn(DB, g2) = {4, 5}
          /\ MembersIn(DB, g3) \subseteq {1, 2, 3}
    /\ Cardinality(AlignmentResult) = 4

(* C19: two store_entry calls for the same cluster, each in its own
   transaction and interleaved in any way, never leave two groups whose
   members are the same pair, nor two results of one group. *)
C19_NoDuplicatesUnderConcurrency ==
    /\ \A g \in AlignmentGroup, h \in AlignmentGroup :
          MembersIn(DB, g) = MembersIn(DB, h) => g = h
    /\ \A g \in AlignmentGroup : Cardinality(ResultsIn(DB, g)) <= 1

====
